---- MODULE Spec2Model ----
(***************************************************************************)
(* A model of the GAIA agent (src/agent.py, src/tools.py, src/app.py).     *)
(*                                                                         *)
(* Python strings are sequences of one-character strings, so that          *)
(* lower(), strip(), split(), startswith() and the substring test act on   *)
(* characters as they do in the source.                                    *)
(***************************************************************************)
EXTENDS Integers, Sequences, FiniteSets, TLC

VARIABLES
    pc,               \* the position of the operation under way
    \* GAIAAgent.answer_question: its arguments and the agent's tools
    question_text,    \* the question, a string
    task_id,          \* the task identifier, a string or None
    tools,            \* the keys of self.tools
    search_client,    \* whether WebSearchTool.client is set (TAVILY_API_KEY)
    file_cache,       \* FileReaderTool._file_cache: task id -> bytes
    \* FileReaderTool.read_file: its locals
    attempt,          \* the index of the retry loop
    requests,         \* how many times requests.get was called in this call
    response,         \* what the last requests.get did
    \* GAIAAgent.answer_question: its locals
    needs_search, needs_file,
    search_query,     \* the query built for the web search
    context,          \* the blocks appended to the context string, in order
    reasoning_steps,  \* the reasoning trace, one tag per appended step
    calls,            \* the tool and model calls made so far, in order
    file_content,     \* what read_file returned: bytes or None
    file_parse,       \* which pandas reader accepts the bytes
    full_response,    \* the model's reply
    answer, answer_reasoning,
    final_answer,
    reformatted,      \* the formatter applied to final_answer once more
    \* generate_submission_file: its locals
    questions,        \* the fetched list of question dictionaries
    idx,              \* how many of them the loop has been through
    results, successful, failed,
    output_file       \* the lines written to the JSONL file

in_vars == <<question_text, task_id, tools, search_client>>

read_vars == <<attempt, requests, response>>

agent_vars == <<needs_search, needs_file, search_query, context,
                reasoning_steps, calls, file_content, file_parse, file_cache,
                read_vars>>

answer_vars == <<full_response, answer, answer_reasoning, final_answer,
                 reformatted>>

batch_vars == <<questions, idx, results, successful, failed, output_file>>

vars == <<pc, in_vars, agent_vars, answer_vars, batch_vars>>

\* Python's None, kept apart from every string: no string holds this element.
None == <<"<None>">>

\* Python truthiness of a string or None.
Truthy(x) == x # None /\ x # <<>>

\* The value of `response` before requests.get has been called.
NoResponse == [kind |-> "none", status |-> 0, json_type |-> FALSE, body |-> <<>>]

(***************************************************************************)
(* Bounds of the model.                                                    *)
(***************************************************************************)
\* Number of pieces a raw answer is put together from.
MaxPieces == 3

(***************************************************************************)
(* Python str primitives.                                                  *)
(***************************************************************************)
UpperChars == <<"A","B","C","D","E","F","G","H","I","J","K","L","M",
                "N","O","P","Q","R","S","T","U","V","W","X","Y","Z">>

LowerChars == <<"a","b","c","d","e","f","g","h","i","j","k","l","m",
                "n","o","p","q","r","s","t","u","v","w","x","y","z">>

\* The characters str.strip() and str.split() treat as whitespace.
Whitespace == {" ", "\t", "\n"}

\* str.lower() on one character.
LowerChar(c) ==
    IF \E i \in 1..26 : UpperChars[i] = c
    THEN LowerChars[CHOOSE i \in 1..26 : UpperChars[i] = c]
    ELSE c

\* str.lower()
Lower(s) == [i \in 1..Len(s) |-> LowerChar(s[i])]

\* str.startswith(p)
StartsWith(s, p) == Len(s) >= Len(p) /\ SubSeq(s, 1, Len(p)) = p

\* str.endswith(p)
EndsWith(s, p) == Len(s) >= Len(p) /\ SubSeq(s, Len(s) - Len(p) + 1, Len(s)) = p

\* `sub in s` on strings
Contains(s, sub) ==
    \E i \in 1..(Len(s) - Len(sub) + 1) : SubSeq(s, i, i + Len(sub) - 1) = sub

RECURSIVE LStripSet(_, _)
\* str.lstrip(chars)
LStripSet(s, chars) ==
    IF s # <<>> /\ Head(s) \in chars THEN LStripSet(Tail(s), chars) ELSE s

RECURSIVE RStripSet(_, _)
\* str.rstrip(chars)
RStripSet(s, chars) ==
    IF s # <<>> /\ s[Len(s)] \in chars
    THEN RStripSet(SubSeq(s, 1, Len(s) - 1), chars)
    ELSE s

\* str.strip(chars)
StripSet(s, chars) == LStripSet(RStripSet(s, chars), chars)

\* str.strip()
Strip(s) == StripSet(s, Whitespace)

RECURSIVE SplitFrom(_, _, _)
\* The words of s from position i on, cur being the word under construction.
SplitFrom(s, i, cur) ==
    IF i > Len(s) THEN (IF cur = <<>> THEN <<>> ELSE <<cur>>)
    ELSE IF s[i] \in Whitespace
         THEN (IF cur = <<>> THEN <<>> ELSE <<cur>>) \o SplitFrom(s, i + 1, <<>>)
         ELSE SplitFrom(s, i + 1, Append(cur, s[i]))

\* str.split(): the maximal runs of non-whitespace characters
Split(s) == SplitFrom(s, 1, <<>>)

RECURSIVE Join(_, _)
\* sep.join(words)
Join(sep, words) ==
    IF words = <<>> THEN <<>>
    ELSE IF Len(words) = 1 THEN words[1]
    ELSE words[1] \o sep \o Join(sep, Tail(words))

RECURSIVE Cat(_)
\* The concatenation of a sequence of strings.
Cat(pieces) == IF pieces = <<>> THEN <<>> ELSE Head(pieces) \o Cat(Tail(pieces))

\* The sequences over S of length at most n.
SeqUpTo(S, n) == UNION {[1..k -> S] : k \in 0..n}

(***************************************************************************)
(* GAIAAgent._format_for_scorer                                            *)
(***************************************************************************)
prefixes_to_remove == <<
    <<"t","h","e"," ","a","n","s","w","e","r"," ","i","s"," ">>,
    <<"i","t"," ","i","s"," ">>,
    <<"t","h","a","t"," ","w","o","u","l","d"," ","b","e"," ">>,
    <<"i"," ","b","e","l","i","e","v","e"," ">>,
    <<"i"," ","t","h","i","n","k"," ">>,
    <<"t","h","i","s"," ","i","s"," ">> >>

\* Whether some filler prefix starts the lowercased ans.
HasFillerPrefix(ans) ==
    \E k \in 1..Len(prefixes_to_remove) :
        StartsWith(Lower(ans), prefixes_to_remove[k])

\* The for loop with its break: the first matching prefix, in list order, is
\* cut off and the rest stripped again.
RemovePrefix(ans) ==
    IF HasFillerPrefix(ans)
    THEN LET k == CHOOSE j \in 1..Len(prefixes_to_remove) :
                    /\ StartsWith(Lower(ans), prefixes_to_remove[j])
                    /\ \A h \in 1..(j - 1) :
                          ~StartsWith(Lower(ans), prefixes_to_remove[h])
         IN  Strip(SubSeq(ans, Len(prefixes_to_remove[k]) + 1, Len(ans)))
    ELSE ans

\* The condition of the quote step: both ends are the same straight quote.
QuoteWrapped(ans) ==
    \/ StartsWith(ans, <<"\"">>) /\ EndsWith(ans, <<"\"">>)
    \/ StartsWith(ans, <<"'">>) /\ EndsWith(ans, <<"'">>)

\* answer[1:-1] under that condition
RemoveQuotes(ans) ==
    IF QuoteWrapped(ans) THEN SubSeq(ans, 2, Len(ans) - 1) ELSE ans

\* answer.rstrip('.')
RemoveTrailingPeriods(ans) == RStripSet(ans, {"."})

\* ' '.join(answer.split()) and the final strip()
CollapseWhitespace(ans) == Strip(Join(<<" ">>, Split(ans)))

\* A formatter that leaves out the last two steps (the whitespace collapse and
\* the final strip).
format_without_collapse(ans) ==
    RemoveTrailingPeriods(RemoveQuotes(RemovePrefix(Strip(ans))))

_format_for_scorer(ans) ==
    CollapseWhitespace(
        RemoveTrailingPeriods(RemoveQuotes(RemovePrefix(Strip(ans)))))

(***************************************************************************)
(* SpecFormat: the formatter applied to a raw answer, then to its own      *)
(* output.                                                                 *)
(***************************************************************************)
\* The pieces raw answers are put together from: two filler prefixes (one in
\* mixed case), both quote characters, a period, a space and a digit.
FmtPieces == {
    <<"i","t"," ","i","s"," ">>,
    <<"I"," ","t","h","i","n","k"," ">>,
    <<"\"">>, <<"'">>, <<".">>, <<" ">>, <<"4">> }

RawAnswers == {Cat(p) : p \in SeqUpTo(FmtPieces, MaxPieces)}

\* The inputs of answer_question and of the batch before any of them is used.
InputsIdle ==
    /\ question_text = <<>>
    /\ task_id = None
    /\ tools = {}
    /\ search_client = FALSE

\* The locals of answer_question as it starts.
AgentIdle ==
    /\ needs_search = FALSE
    /\ needs_file = FALSE
    /\ search_query = <<>>
    /\ context = <<>>
    /\ reasoning_steps = <<>>
    /\ calls = <<>>
    /\ file_content = None
    /\ file_parse = "none"
    /\ file_cache = <<>>
    /\ attempt = 0
    /\ requests = 0
    /\ response = NoResponse

AnswerIdle ==
    /\ full_response = None
    /\ answer = <<>>
    /\ answer_reasoning = <<>>
    /\ final_answer = <<>>
    /\ reformatted = <<>>

BatchIdle ==
    /\ questions = <<>>
    /\ idx = 0
    /\ results = <<>>
    /\ successful = 0
    /\ failed = 0
    /\ output_file = <<>>

InitFormat ==
    /\ pc = "format"
    /\ answer \in RawAnswers
    /\ full_response = None
    /\ answer_reasoning = <<>>
    /\ final_answer = <<>>
    /\ reformatted = <<>>
    /\ InputsIdle /\ AgentIdle /\ BatchIdle

\* final_answer = self._format_for_scorer(answer, question_text)
Format ==
    /\ pc = "format"
    /\ final_answer' = _format_for_scorer(answer)
    /\ pc' = "formatted"
    /\ UNCHANGED <<full_response, answer, answer_reasoning, reformatted>>
    /\ UNCHANGED <<in_vars, agent_vars, batch_vars>>

\* The formatter applied to its own output.
Reformat ==
    /\ pc = "formatted"
    /\ reformatted' = _format_for_scorer(final_answer)
    /\ pc' = "reformatted"
    /\ UNCHANGED <<full_response, answer, answer_reasoning, final_answer>>
    /\ UNCHANGED <<in_vars, agent_vars, batch_vars>>

NextFormat == Format \/ Reformat

SpecFormat == InitFormat /\ [][NextFormat]_vars

\* A formatted answer on which no step of the formatter has anything left to
\* do: no filler prefix, no wrapping quote pair, no trailing period.
Settled(ans) ==
    /\ ~HasFillerPrefix(ans)
    /\ ~QuoteWrapped(ans)
    /\ ~EndsWith(ans, <<".">>)

\* C1 (as stated): the formatter is idempotent, format(format(x)) = format(x)
\* for every raw answer x.
C1_Idempotent ==
    pc = "reformatted" => reformatted = final_answer

\* C1 (amended): format(format(x)) = format(x) for every raw answer x whose
\* formatted form format(x) starts with no filler prefix, is not wrapped in a
\* pair of equal straight quotes and does not end in a period.
C1_IdempotentWhenSettled ==
    (pc = "reformatted" /\ Settled(final_answer))
        => reformatted = final_answer

\* C1 witness: a raw answer with a filler prefix that the formatter changed into
\* a non-empty settled answer, formatted a second time.
C1_Witness ==
    /\ pc = "reformatted"
    /\ HasFillerPrefix(answer)
    /\ final_answer # answer
    /\ final_answer # <<>>
    /\ Settled(final_answer)
    /\ reformatted = final_answer

(***************************************************************************)
(* GAIAAgent._generate_answer_gaia_format                                  *)
(***************************************************************************)
FINAL_ANSWER_MARKER == <<"F","I","N","A","L"," ","A","N","S","W","E","R",":">>

DirectAnswerProvided == <<"D","i","r","e","c","t"," ","a","n","s","w","e","r"," ","p","r","o","v","i","d","e","d">>

ErrorGeneratingAnswer == <<"E","r","r","o","r"," ","g","e","n","e","r","a","t","i","n","g"," ","a","n","s","w","e","r">>

\* The position of the first occurrence of sub in s (s.find(sub) + 1).
Find(s, sub) ==
    CHOOSE i \in 1..(Len(s) - Len(sub) + 1) :
        /\ SubSeq(s, i, i + Len(sub) - 1) = sub
        /\ \A j \in 1..(i - 1) : SubSeq(s, j, j + Len(sub) - 1) # sub

RECURSIVE SplitOn(_, _)
\* str.split(sep): the parts between the occurrences of sep, taken from the
\* left and not overlapping
SplitOn(s, sep) ==
    IF Contains(s, sep)
    THEN <<SubSeq(s, 1, Find(s, sep) - 1)>>
            \o SplitOn(SubSeq(s, Find(s, sep) + Len(sep), Len(s)), sep)
    ELSE <<s>>

\* The answer and the reasoning taken from the model's reply.
ExtractFinalAnswer(reply) ==
    IF Contains(reply, FINAL_ANSWER_MARKER)
    THEN LET parts == SplitOn(reply, FINAL_ANSWER_MARKER)
         IN  [answer |-> Strip(parts[Len(parts)]), reasoning |-> Strip(parts[1])]
    ELSE [answer |-> Strip(reply), reasoning |-> DirectAnswerProvided]

\* The outcome of the one chat_completion call: a reply, or an exception whose
\* text is `error`.
ModelReply(content) == [ok |-> TRUE, content |-> content, error |-> <<>>]

ModelFailure(error) == [ok |-> FALSE, content |-> None, error |-> error]

\* A method whose except clause returns an empty answer in place of the
\* sentinel and drops the error text.
generate_without_sentinel(outcome) ==
    IF outcome.ok
    THEN ExtractFinalAnswer(outcome.content)
    ELSE [answer |-> <<>>, reasoning |-> <<>>]

\* The try block and its except clause: what the method returns.
_generate_answer_gaia_format(outcome) ==
    IF outcome.ok
    THEN ExtractFinalAnswer(outcome.content)
    ELSE [answer |-> ErrorGeneratingAnswer, reasoning |-> outcome.error]

(***************************************************************************)
(* SpecExtract: the answer extraction applied to a model reply.            *)
(***************************************************************************)
\* Number of pieces a model reply is put together from.
MaxReplyPieces == 4

\* The pieces replies are put together from.
ReplyPieces == {FINAL_ANSWER_MARKER, <<" ">>, <<"a">>, <<"7">>}

Replies == {Cat(p) : p \in SeqUpTo(ReplyPieces, MaxReplyPieces)}

InitExtract ==
    /\ pc = "extract"
    /\ full_response \in Replies
    /\ answer = <<>>
    /\ answer_reasoning = <<>>
    /\ final_answer = <<>>
    /\ reformatted = <<>>
    /\ InputsIdle /\ AgentIdle /\ BatchIdle

\* The extraction that follows full_response = response.choices[0].message.content
Extract ==
    /\ pc = "extract"
    /\ LET got == _generate_answer_gaia_format(ModelReply(full_response))
       IN  /\ answer' = got.answer
           /\ answer_reasoning' = got.reasoning
    /\ pc' = "extracted"
    /\ UNCHANGED <<full_response, final_answer, reformatted>>
    /\ UNCHANGED <<in_vars, agent_vars, batch_vars>>

NextExtract == Extract

SpecExtract == InitExtract /\ [][NextExtract]_vars

\* Whether an occurrence of the marker starts at position i of s.
MarkerAt(s, i) ==
    /\ i + Len(FINAL_ANSWER_MARKER) - 1 <= Len(s)
    /\ SubSeq(s, i, i + Len(FINAL_ANSWER_MARKER) - 1) = FINAL_ANSWER_MARKER

\* The position of the last occurrence of the marker in s.
LastMarker(s) ==
    CHOOSE i \in 1..Len(s) :
        MarkerAt(s, i) /\ \A j \in (i + 1)..Len(s) : ~MarkerAt(s, j)

\* The number of occurrences of the marker in s.
MarkerCount(s) == Cardinality({i \in 1..Len(s) : MarkerAt(s, i)})

\* C4: with the marker present, the raw answer is the trimmed text after its
\* last occurrence and the reasoning the trimmed text before that last
\* occurrence; without the marker, the raw answer is the whole trimmed reply
\* and the reasoning the fixed placeholder.
C4_Extraction ==
    pc = "extracted" =>
        IF Contains(full_response, FINAL_ANSWER_MARKER)
        THEN /\ answer = Strip(SubSeq(full_response,
                    LastMarker(full_response) + Len(FINAL_ANSWER_MARKER),
                    Len(full_response)))
             /\ answer_reasoning =
                    Strip(SubSeq(full_response, 1, LastMarker(full_response) - 1))
        ELSE /\ answer = Strip(full_response)
             /\ answer_reasoning = DirectAnswerProvided

(***************************************************************************)
(* GAIAAgent._needs_web_search, GAIAAgent._needs_file                      *)
(***************************************************************************)
search_keywords == <<
    <<"c","u","r","r","e","n","t">>,
    <<"l","a","t","e","s","t">>,
    <<"r","e","c","e","n","t">>,
    <<"t","o","d","a","y">>,
    <<"n","o","w">>,
    <<"2","0","2","4">>,
    <<"2","0","2","5">>,
    <<"2","0","2","6">>,
    <<"w","h","o"," ","i","s">>,
    <<"w","h","a","t"," ","i","s">>,
    <<"w","h","e","n"," ","d","i","d">>,
    <<"w","h","e","r","e"," ","i","s">>,
    <<"h","o","w"," ","m","a","n","y">>,
    <<"w","h","e","r","e"," ","w","e","r","e">>,
    <<"p","o","p","u","l","a","t","i","o","n">>,
    <<"p","r","i","c","e">>,
    <<"c","o","s","t">>,
    <<"p","r","e","s","i","d","e","n","t">>,
    <<"C","E","O">>,
    <<"c","a","p","i","t","a","l">>,
    <<"l","o","c","a","t","e","d">>,
    <<"f","o","u","n","d","e","d">>,
    <<"b","o","r","n">>,
    <<"d","i","e","d">>,
    <<"r","e","l","e","a","s","e","d">>,
    <<"p","u","b","l","i","s","h","e","d">>,
    <<"p","a","p","e","r">>,
    <<"s","t","u","d","y">>,
    <<"r","e","s","e","a","r","c","h">>,
    <<"a","r","t","i","c","l","e">>,
    <<"j","o","u","r","n","a","l">>,
    <<"p","u","b","l","i","c","a","t","i","o","n">>,
    <<"d","e","s","c","r","i","b","e","d"," ","b","y">>,
    <<"d","e","p","o","s","i","t","e","d">>,
    <<"s","p","e","c","i","m","e","n","s">>,
    <<"a","u","t","h","o","r">>,
    <<"c","i","t","e","d">> >>

file_keywords == <<
    <<"f","i","l","e">>,
    <<"i","m","a","g","e">>,
    <<"d","o","c","u","m","e","n","t">>,
    <<"p","i","c","t","u","r","e">>,
    <<"p","h","o","t","o">>,
    <<"s","h","o","w","n">>,
    <<"a","t","t","a","c","h","e","d">>,
    <<"p","r","o","v","i","d","e","d">>,
    <<"g","i","v","e","n">>,
    <<"p","a","i","n","t","i","n","g">>,
    <<"c","h","a","r","t">>,
    <<"g","r","a","p","h">>,
    <<"t","a","b","l","e">>,
    <<"s","p","r","e","a","d","s","h","e","e","t">>,
    <<"p","d","f">> >>

_needs_web_search(question) ==
    \E k \in 1..Len(search_keywords) :
        Contains(Lower(question), search_keywords[k])

_needs_file(question) ==
    \E k \in 1..Len(file_keywords) :
        Contains(Lower(question), file_keywords[k])

(***************************************************************************)
(* GAIAAgent._generate_search_query                                        *)
(***************************************************************************)
stop_words == {
    <<"t","h","e">>, <<"a">>, <<"a","n">>, <<"i","n">>, <<"o","n">>,
    <<"a","t">>, <<"t","o">>, <<"f","o","r">>, <<"o","f">>,
    <<"w","i","t","h">>, <<"b","y">>, <<"f","r","o","m">>,
    <<"j","u","s","t">>, <<"g","i","v","e">>, <<"m","e">>,
    <<"w","i","t","h","o","u","t">> }

\* The characters of word.strip('.,?!')
Punctuation == {".", ",", "?", "!"}

Digits == {"0","1","2","3","4","5","6","7","8","9"}

\* key_terms[:12]
MaxKeyTerms == 12

\* str.isupper() on one character
IsUpper(c) == \E i \in 1..26 : UpperChars[i] = c

\* str.isdigit(): not empty and digits only
IsDigit(s) == s # <<>> /\ \A i \in 1..Len(s) : s[i] \in Digits

\* The condition under which the loop keeps a word.
KeepWord(word) ==
    LET clean_word == Lower(StripSet(word, Punctuation))
    IN  IsUpper(word[1]) \/ IsDigit(clean_word) \/ clean_word \notin stop_words

RECURSIVE KeyTerms(_)
\* The loop over words: the kept words, each without its outer punctuation.
KeyTerms(words) ==
    IF words = <<>> THEN <<>>
    ELSE (IF KeepWord(Head(words))
          THEN <<StripSet(Head(words), Punctuation)>>
          ELSE <<>>) \o KeyTerms(Tail(words))

\* s[:n]
Take(s, n) == SubSeq(s, 1, IF Len(s) < n THEN Len(s) ELSE n)

_generate_search_query(question) ==
    Join(<<" ">>, Take(KeyTerms(Split(question)), MaxKeyTerms))

(***************************************************************************)
(* WebSearchTool.search                                                    *)
(***************************************************************************)
\* What the Tavily client does with a query: it answers, or it raises.
SearchOutcomes == {"results", "failed"}

\* The string search() returns, by kind: the fixed "unavailable" string
\* without a client, the formatted results, or "Search failed: ...".
search(client, outcome) == IF ~client THEN "unavailable" ELSE outcome

(***************************************************************************)
(* FileReaderTool.read_file                                                *)
(***************************************************************************)
max_retries == 3

\* Bytes that are not valid UTF-8, each one element of a byte string.
InvalidBytes == {"xD0", "xCF", "xFF", "xFE"}

\* What one requests.get does: it times out, raises, or returns a response.
Timeout == [kind |-> "timeout", status |-> 0, json_type |-> FALSE, body |-> <<>>]

RequestError == [kind |-> "error", status |-> 0, json_type |-> FALSE, body |-> <<>>]

Response(status, json_type, body) ==
    [kind |-> "response", status |-> status, json_type |-> json_type, body |-> body]

\* response.json() gives a dict with the key "detail": the body is a JSON
\* object that opens with that key.
JsonHasDetail(body) == StartsWith(body, <<"{","\"","d","e","t","a","i","l","\"">>)

\* A loop body that gives up on the first failure of any kind.
HandleResponse_NoRetry(r, n) ==
    IF r.kind = "response" /\ r.status = 200 /\ Len(r.body) > 0
          /\ ~(r.json_type /\ JsonHasDetail(r.body))
    THEN "success"
    ELSE "give_up"

\* A loop body whose ceiling is one attempt higher.
HandleResponse_OneMore(r, n) ==
    LET again == IF n < max_retries THEN "retry" ELSE "give_up"
    IN  IF r.kind # "response" THEN again
        ELSE IF r.status = 404 THEN "give_up"
        ELSE IF r.status # 200 THEN again
        ELSE IF Len(r.body) = 0 THEN "give_up"
        ELSE IF r.json_type /\ JsonHasDetail(r.body) THEN "give_up"
        ELSE "success"

\* One pass of the loop body on what requests.get did in attempt n: the
\* content is returned ("success"), None is returned ("give_up"), or the loop
\* continues ("retry").
HandleResponse(r, n) ==
    LET again == IF n < max_retries - 1 THEN "retry" ELSE "give_up"
    IN  IF r.kind # "response" THEN again
        ELSE IF r.status = 404 THEN "give_up"
        ELSE IF r.status # 200 THEN again
        ELSE IF Len(r.body) = 0 THEN "give_up"
        ELSE IF r.json_type /\ JsonHasDetail(r.body) THEN "give_up"
        ELSE "success"

\* A cache that stores whatever the call returns, None included.
CacheAfter_Always(cache, task, content) == (task :> content) @@ cache

\* self._file_cache[task_id] = response.content, on the success path only
CacheAfter(cache, task, content) ==
    IF content # None THEN (task :> content) @@ cache ELSE cache

RECURSIVE Download(_, _)
\* The retry loop from attempt n on, script[k] being what the k-th request
\* does: the bytes returned (None for a failure) and the requests made.
Download(script, n) ==
    LET r == script[n + 1]
        h == HandleResponse(r, n)
    IN  IF h = "retry" THEN Download(script, n + 1)
        ELSE [content |-> IF h = "success" THEN r.body ELSE None,
              requests |-> n + 1]

\* read_file(task_id): the bytes returned, the cache afterwards and the
\* number of requests made.
read_file(cache, task, script) ==
    IF task \in DOMAIN cache
    THEN [content |-> cache[task], cache |-> cache, requests |-> 0]
    ELSE LET got == Download(script, 0)
         IN  [content |-> got.content,
              cache |-> CacheAfter(cache, task, got.content),
              requests |-> got.requests]

(***************************************************************************)
(* GAIAAgent.answer_question                                               *)
(***************************************************************************)
\* One entry of reasoning_steps: which step, and the text it carries.
Step(tag, text) == [step |-> tag, text |-> text]

\* One block appended to the context string: its kind (the fixed text around
\* it), the search result kind, the text it quotes and the byte count it names.
Block(kind, body, text, n) == [kind |-> kind, body |-> body, text |-> text, n |-> n]

\* f"\n\nWeb Search Results:\n{search_results}\n"
SearchBlock(search_results) == Block("search", search_results, <<>>, 0)

\* "Note: The associated file could not be downloaded from the API. ..."
DownloadIssueNote == Block("file_issue", "", <<>>, 0)

\* f"\n\nFile Content:\n{excel_summary}\n"
ExcelBlock == Block("excel", "", <<>>, 0)

\* f"\n\nFile Content:\n{csv_summary}\n"
CsvBlock == Block("csv", "", <<>>, 0)

\* f"\n\nFile Content (text interpretation):\n{file_text}\n"
TextBlock(file_text) == Block("text", "", file_text, 0)

\* f"\n\nFile: [Binary file, {len(file_content)} bytes - could not parse]\n"
BinaryBlock(n) == Block("binary", "", <<>>, n)

\* "Note: The file associated with this question (task_id: ...) could not be
\* retrieved from the API. ..."
UnavailableNotice(task) == Block("file_unavailable", "", task, 0)

\* The kinds of block the file step appends.
FileBlockKinds == {"file_issue", "excel", "csv", "text", "binary", "file_unavailable"}

\* file_content.decode('utf-8', errors='ignore'): the invalid bytes are dropped
DecodeIgnore(bytes) == SelectSeq(bytes, LAMBDA b : b \notin InvalidBytes)

\* Whether the bytes are valid UTF-8.
Decodable(bytes) == \A i \in 1..Len(bytes) : bytes[i] \notin InvalidBytes

DetailMarker == <<"d","e","t","a","i","l">>

FailedMarker == <<"F","a","i","l","e","d"," ","t","o"," ","d","o","w","n","l","o","a","d">>

ErrorMarker == <<"E","r","r","o","r">>

\* file_text = ...[:2000]
TextBudget == 2000

\* Which pandas reader accepts the bytes: read_excel, else read_csv, else none.
Parses == {"excel", "csv", "none"}

\* The first bytes of an .xls workbook (D0 CF ...), which are not valid UTF-8.
WorkbookMagic == <<"xD0","xCF">>

\* Whether pandas may read the bytes that way: read_excel only what opens as a
\* workbook, read_csv only valid UTF-8; either may still reject them.
CanParse(content, parse) ==
    /\ parse = "excel" => content # None /\ StartsWith(content, WorkbookMagic)
    /\ parse = "csv" => content # None /\ Decodable(content)

\* The file step on what read_file returned: the block and the reasoning step
\* it appends.  Nothing in the try block raises (the decoding ignores
\* errors), so its except clause, which appends BinaryBlock, is never entered.
FileOutcome(content, parse, task) ==
    IF content # None /\ Len(content) > 0
    THEN LET error_check == DecodeIgnore(content)
         IN  IF \/ Contains(error_check, DetailMarker)
                \/ Contains(error_check, FailedMarker)
                \/ Contains(error_check, ErrorMarker)
             THEN [block |-> DownloadIssueNote, step |-> "File unavailable"]
             ELSE IF parse = "excel"
             THEN [block |-> ExcelBlock, step |-> "Excel file processed"]
             ELSE IF parse = "csv"
             THEN [block |-> CsvBlock, step |-> "CSV file processed"]
             ELSE [block |-> TextBlock(Take(DecodeIgnore(content), TextBudget)),
                   step |-> "File processed as text"]
    ELSE [block |-> UnavailableNotice(task), step |-> "File could not be retrieved"]

\* A needs_file that leaves out the check of the task id.
NeedsFile_WithoutTaskId(task, question) == _needs_file(question)

\* needs_file = task_id and self._needs_file(question_text), by its truth value
NeedsFile(task, question) == Truthy(task) /\ _needs_file(question)

\* A search guard that leaves out needs_search.
SearchWanted_ToolOnly == "search" \in tools

\* A search guard that looks up a key the tools never have.
SearchWanted_WrongKey == needs_search /\ "web_search" \in tools

\* if needs_search and "search" in self.tools
SearchWanted == needs_search /\ "search" \in tools

\* if needs_file and "file_reader" in self.tools
FileWanted == needs_file /\ "file_reader" \in tools

\* Step 1: analyze if we need tools.
Analyze ==
    /\ pc = "analyze"
    /\ needs_search' = _needs_web_search(question_text)
    /\ needs_file' = NeedsFile(task_id, question_text)
    /\ reasoning_steps' =
            <<Step("Question", question_text)>>
            \o (IF needs_search' THEN <<Step("search needed", <<>>)>> ELSE <<>>)
            \o (IF needs_file' THEN <<Step("file needed", <<>>)>> ELSE <<>>)
    /\ context' = <<>>
    /\ pc' = "gather_search"
    /\ UNCHANGED <<search_query, calls, file_content, file_parse, file_cache>>
    /\ UNCHANGED read_vars
    /\ UNCHANGED <<in_vars, answer_vars, batch_vars>>

\* Step 2, first half: the web search and its block.
GatherSearch ==
    /\ pc = "gather_search"
    /\ \/ /\ SearchWanted
          /\ \E outcome \in SearchOutcomes :
                LET search_results == search(search_client, outcome)
                IN  /\ search_query' = _generate_search_query(question_text)
                    /\ calls' = Append(calls, [op |-> "search", arg |-> search_query'])
                    /\ context' = Append(context, SearchBlock(search_results))
                    /\ reasoning_steps' = reasoning_steps
                            \o <<Step("Search query", search_query'),
                                 Step("Search completed", <<>>)>>
       \/ /\ ~SearchWanted
          /\ UNCHANGED <<search_query, calls, context, reasoning_steps>>
    /\ pc' = "gather_file"
    /\ UNCHANGED <<needs_search, needs_file, file_content, file_parse, file_cache>>
    /\ UNCHANGED read_vars
    /\ UNCHANGED <<in_vars, answer_vars, batch_vars>>

\* The bodies the file endpoint serves.
TextBody == <<"a",",","b">>

TextWithErrorBody == <<"a",",","E","r","r","o","r">>

BinaryBody == <<"xFF","xFE">>

\* A workbook, and a workbook one of whose cells reads "details" (an .xls
\* file stores its strings as they are).
WorkbookBody == WorkbookMagic \o <<"t","o","t","a","l">>

WorkbookWithDetailsBody == WorkbookMagic \o <<"d","e","t","a","i","l","s">>

ErrorPayload == <<"{","\"","d","e","t","a","i","l","\"",":","\"","N","o"," ","f","i","l","e","\"","}">>

\* What the file endpoint does on the successive requests of one read_file.
Serve(json_type, body) == [k \in 1..max_retries |-> Response(200, json_type, body)]

EndpointScripts ==
    {Serve(FALSE, b) : b \in {TextBody, TextWithErrorBody, BinaryBody, WorkbookBody,
                                 WorkbookWithDetailsBody, ErrorPayload, <<>>}}
    \cup {Serve(TRUE, ErrorPayload),
          <<Timeout, Timeout, Timeout>>,
          <<RequestError, RequestError, RequestError>>,
          <<Response(404, FALSE, <<>>), Timeout, Timeout>>,
          <<Response(500, FALSE, <<>>), Timeout, Response(200, FALSE, TextBody)>>}

\* Step 2, second half: the file download and its block.
GatherFile ==
    /\ pc = "gather_file"
    /\ \/ /\ FileWanted
          /\ \E script \in EndpointScripts, parse \in Parses :
                LET got == read_file(file_cache, task_id, script)
                    out == FileOutcome(got.content, parse, task_id)
                IN  /\ CanParse(got.content, parse)
                    /\ file_content' = got.content
                    /\ file_parse' = parse
                    /\ file_cache' = got.cache
                    /\ calls' = Append(calls, [op |-> "read_file", arg |-> task_id])
                    /\ context' = Append(context, out.block)
                    /\ reasoning_steps' = reasoning_steps
                            \o <<Step(out.step, <<>>),
                                 Step("File processing completed", <<>>)>>
       \/ /\ ~FileWanted
          /\ UNCHANGED <<calls, context, reasoning_steps, file_content,
                         file_parse, file_cache>>
    /\ pc' = "generate"
    /\ UNCHANGED <<needs_search, needs_file, search_query>>
    /\ UNCHANGED read_vars
    /\ UNCHANGED <<in_vars, answer_vars, batch_vars>>

CreditsExhausted == <<"4","0","2"," ","c","r","e","d","i","t","s"," ","e","x","h","a","u","s","t","e","d">>

ConnectionReset == <<"c","o","n","n","e","c","t","i","o","n"," ","r","e","s","e","t">>

\* What the one chat_completion call of a question may do.
ModelOutcomes ==
    {ModelReply(<<"4">>),
     ModelReply(<<"a"," ">> \o FINAL_ANSWER_MARKER \o <<" ","i","t"," ","i","s"," ","4",".">>),
     ModelFailure(ConnectionReset),
     ModelFailure(CreditsExhausted)}

\* Step 3: the model call with the context gathered, and the extraction.
Generate ==
    /\ pc = "generate"
    /\ \E outcome \in ModelOutcomes :
          LET got == _generate_answer_gaia_format(outcome)
          IN  /\ full_response' = outcome.content
              /\ answer' = got.answer
              /\ answer_reasoning' = got.reasoning
              /\ reasoning_steps' =
                    Append(reasoning_steps, Step("answer_reasoning", got.reasoning))
    /\ calls' = Append(calls, [op |-> "chat_completion", arg |-> context])
    /\ pc' = "format_answer"
    /\ UNCHANGED <<needs_search, needs_file, search_query, context,
                   file_content, file_parse, file_cache, final_answer,
                   reformatted>>
    /\ UNCHANGED read_vars
    /\ UNCHANGED <<in_vars, batch_vars>>

\* Step 4: format the answer for the scorer, and return.
FormatAnswer ==
    /\ pc = "format_answer"
    /\ final_answer' = _format_for_scorer(answer)
    /\ reasoning_steps' =
            Append(reasoning_steps,
                   Step("Final formatted answer", _format_for_scorer(answer)))
    /\ pc' = "done"
    /\ UNCHANGED <<needs_search, needs_file, search_query, context, calls,
                   file_content, file_parse, file_cache>>
    /\ UNCHANGED read_vars
    /\ UNCHANGED <<full_response, answer, answer_reasoning, reformatted>>
    /\ UNCHANGED <<in_vars, batch_vars>>

(***************************************************************************)
(* Spec: one call of answer_question.                                      *)
(***************************************************************************)
\* The question texts of the model: the two questions of the spec's
\* scenarios, the empty question, one without any keyword, and every file
\* keyword on its own and in upper case.
Upper(s) ==
    [i \in 1..Len(s) |->
        IF \E j \in 1..26 : LowerChars[j] = s[i]
        THEN UpperChars[CHOOSE j \in 1..26 : LowerChars[j] = s[i]]
        ELSE s[i]]

PopulationQuestion == <<"W","h","a","t"," ","i","s"," ","t","h","e"," ","p","o","p","u","l","a","t","i","o","n"," ","o","f"," ","C","a","n","a","d","a","?">>

SpreadsheetQuestion == <<"S","u","m","m","a","r","i","z","e"," ","t","h","e"," ","a","t","t","a","c","h","e","d"," ","s","p","r","e","a","d","s","h","e","e","t">>

PlainQuestion == <<"h","e","l","l","o">>

Questions ==
    {PopulationQuestion, SpreadsheetQuestion, PlainQuestion, <<>>,
     PopulationQuestion \o <<" ">> \o SpreadsheetQuestion}
    \cup {file_keywords[k] : k \in 1..Len(file_keywords)}
    \cup {Upper(file_keywords[k]) : k \in 1..Len(file_keywords)}

TaskIds == {None, <<"t","1">>}

ToolNames == {"search", "file_reader"}

Init ==
    /\ pc = "analyze"
    /\ question_text \in Questions
    /\ task_id \in TaskIds
    /\ tools \in SUBSET ToolNames
    /\ search_client \in BOOLEAN
    /\ AgentIdle /\ AnswerIdle /\ BatchIdle

Next == Analyze \/ GatherSearch \/ GatherFile \/ Generate \/ FormatAnswer

Spec == Init /\ [][Next]_vars

\* Whether the context holds a search block, and whether it holds a block of
\* the file step.
HasSearchBlock(ctx) == \E i \in 1..Len(ctx) : ctx[i].kind = "search"

HasFileBlock(ctx) == \E i \in 1..Len(ctx) : ctx[i].kind \in FileBlockKinds

\* The positions past the file step.
AfterGathering == {"generate", "format_answer", "done"}

\* Whether read_file returned bytes that are not empty.
FileFetched ==
    /\ pc \in AfterGathering
    /\ needs_file /\ "file_reader" \in tools
    /\ file_content # None /\ Len(file_content) > 0

\* C6: needs_file is true exactly when a file identifier is present and the
\* lowercased question holds a file keyword; without an identifier, or with an
\* empty question, it is false, and while it is false the file reader is never
\* called.
C6_NeedsFile ==
    pc # "analyze" =>
        /\ needs_file <=>
              /\ task_id # None
              /\ \E k \in 1..Len(file_keywords) :
                    Contains(Lower(question_text), file_keywords[k])
        /\ (task_id = None \/ question_text = <<>>) => ~needs_file
        /\ ~needs_file => \A i \in 1..Len(calls) : calls[i].op # "read_file"

\* C6 witness: a question with an identifier and a file keyword in upper case,
\* for which the file reader was called.
C6_Witness ==
    /\ pc = "done"
    /\ task_id # None
    /\ question_text = Upper(file_keywords[1])
    /\ needs_file
    /\ \E i \in 1..Len(calls) : calls[i].op = "read_file"

\* C7 (as stated): the context handed to the model holds a search block
\* exactly when needs_search was true and the search service was configured
\* (registered with the agent, its API client set), and a file block exactly
\* when needs_file was true and the file reader was available.
C7_ContextReflectsConfigured ==
    \A j \in 1..Len(calls) :
        calls[j].op = "chat_completion" =>
            /\ HasSearchBlock(calls[j].arg)
                  <=> (needs_search /\ "search" \in tools /\ search_client)
            /\ HasFileBlock(calls[j].arg)
                  <=> (needs_file /\ "file_reader" \in tools)

\* The state part of C7 (amended).
ContextReflectsRegistered ==
    \A j \in 1..Len(calls) :
        calls[j].op = "chat_completion" =>
            /\ HasSearchBlock(calls[j].arg) <=> (needs_search /\ "search" \in tools)
            /\ HasFileBlock(calls[j].arg) <=> (needs_file /\ "file_reader" \in tools)

\* C7 (amended): the context handed to the model holds a search block exactly
\* when needs_search was true and a search tool is registered with the agent
\* (whether or not its API client is configured), and a file block (file
\* content or a file-unavailable notice) exactly when needs_file was true and
\* a file reader is registered; the two flags, once computed, do not change
\* during the question's processing.
C7_ContextReflectsRegistered ==
    /\ []ContextReflectsRegistered
    /\ [][pc # "analyze" =>
            (needs_search' = needs_search /\ needs_file' = needs_file)]_vars

\* C7 witness: a question needing both tools, answered with the search tool
\* registered but its client not configured; the model got both blocks.
C7_Witness ==
    /\ pc = "done"
    /\ needs_search /\ needs_file
    /\ tools = ToolNames
    /\ ~search_client
    /\ \E j \in 1..Len(calls) :
          /\ calls[j].op = "chat_completion"
          /\ HasSearchBlock(calls[j].arg)
          /\ HasFileBlock(calls[j].arg)

\* C8: when the file reader returns bytes that parse neither as a spreadsheet
\* nor as delimited text and are not decodable as text, the context gets the
\* Binary block carrying the byte count.
C8_BinaryFallback ==
    (FileFetched /\ file_parse = "none" /\ ~Decodable(file_content))
        => \E i \in 1..Len(context) : context[i] = BinaryBlock(Len(file_content))

\* C9: when needs_file is true, the file reader is available and the fetched
\* bytes parse as a spreadsheet grid, the context gets a Tabular block,
\* whatever text the bytes contain.
C9_TabularBlock ==
    (FileFetched /\ file_parse = "excel")
        => \E i \in 1..Len(context) : context[i] = ExcelBlock

\* C10: whenever needs_search is true and a search tool is registered, the
\* search call comes before the model call, the search block stands in the
\* context before any file block, and the context passed to the model call
\* holds that search block; the population question without a file reference
\* gives needs_search = true and needs_file = false.
C10_SearchBeforeModel ==
    /\ (pc \notin {"analyze", "gather_search"} /\ needs_search /\ "search" \in tools)
          => /\ Len(context) >= 1 /\ context[1].kind = "search"
             /\ \A b \in 2..Len(context) : context[b].kind \in FileBlockKinds
    /\ \A j \in 1..Len(calls) :
          (calls[j].op = "chat_completion" /\ needs_search /\ "search" \in tools)
              => /\ \E i \in 1..(j - 1) : calls[i].op = "search"
                 /\ calls[j].arg = context
                 /\ HasSearchBlock(calls[j].arg)
    /\ (pc # "analyze" /\ question_text = PopulationQuestion /\ task_id = None)
          => needs_search /\ ~needs_file

\* C10 witness: a question needing both tools with both registered; the calls
\* were search, read_file, chat_completion, and the model's context holds the
\* search block first and a file block second.
C10_Witness ==
    /\ pc = "done"
    /\ Len(calls) = 3
    /\ calls[1].op = "search" /\ calls[2].op = "read_file"
    /\ calls[3].op = "chat_completion"
    /\ Len(calls[3].arg) = 2
    /\ calls[3].arg[1].kind = "search"
    /\ calls[3].arg[2].kind \in FileBlockKinds

(***************************************************************************)
(* SpecSelect: the tool decision on questions built around every search    *)
(* keyword.                                                                *)
(***************************************************************************)
\* A keyword as listed, in lower case and in upper case.
Casings(keyword) == {keyword, Lower(keyword), Upper(keyword)}

\* Every search keyword in each casing, on its own and inside a longer word,
\* and three questions without any keyword.
SelectQuestions ==
    {pre \o c \o post :
        c \in UNION {Casings(search_keywords[k]) : k \in 1..Len(search_keywords)},
        pre \in {<<>>, <<"x">>}, post \in {<<>>, <<"y">>}}
    \cup {<<>>, PlainQuestion, <<"x","y">>}

InitSelect ==
    /\ pc = "analyze"
    /\ question_text \in SelectQuestions
    /\ task_id \in TaskIds
    /\ tools = ToolNames
    /\ search_client = TRUE
    /\ AgentIdle /\ AnswerIdle /\ BatchIdle

NextSelect == Analyze

SpecSelect == InitSelect /\ [][NextSelect]_vars

\* C5: _needs_web_search is true exactly when some keyword of the list occurs
\* in the question as a substring, compared without regard to case; this
\* holds for every keyword of the list and every casing of the question.
C5_NeedsSearch ==
    pc # "analyze" =>
        (needs_search <=>
            \E k \in 1..Len(search_keywords) :
                Contains(Lower(question_text), Lower(search_keywords[k])))

(***************************************************************************)
(* generate_submission_file                                                *)
(***************************************************************************)
\* Number of questions the question endpoint returns.
MaxQuestions == 3

\* A value of the question field that is not a string: a JSON array, which
\* can be sliced but has no lower(), and a JSON number, which cannot be sliced.
ListValue == <<"<list>">>

NumberValue == <<"<number>">>

\* One question dictionary; a key that is absent reads as None, as with
\* q_data.get(key).
QData(task, id, Q, q, text, query) ==
    [task_id |-> task, id |-> id, Question |-> Q, question |-> q,
     text |-> text, query |-> query]

\* Python's `a or b`
Or(a, b) == IF Truthy(a) THEN a ELSE b

\* task_id = q_data.get("task_id") or q_data.get("id")
TaskIdOf(q_data) == Or(q_data.task_id, q_data.id)

\* question_text = q_data.get("Question") or ... or q_data.get("query")
QuestionTextOf(q_data) ==
    Or(q_data.Question, Or(q_data.question, Or(q_data.text, q_data.query)))

\* The question dictionaries of the model: the question under each of its
\* key names, with the task id under either of its key names; a question
\* without text, one with empty text, and the two that are not strings.
QuestionDicts ==
    {QData(<<"t","1">>, None, PlainQuestion, None, None, None),
     QData(None, <<"t","2">>, None, PopulationQuestion, None, None),
     QData(<<"t","3">>, None, None, None, None, <<"p","d","f">>),
     QData(<<"t","4">>, None, None, None, None, None),
     QData(<<"t","5">>, None, None, <<>>, None, None),
     QData(<<"t","6">>, None, None, None, ListValue, None),
     QData(<<"t","7">>, None, NumberValue, None, None, None)}

\* What the question endpoint may return; get_all_questions gives [] when
\* the request fails.
QuestionLists == SeqUpTo(QuestionDicts, MaxQuestions)

\* What the model call of a question of the batch may do.
BatchModelOutcomes ==
    {ModelReply(<<"a"," ">> \o FINAL_ANSWER_MARKER \o <<" ","4",".">>),
     ModelFailure(ConnectionReset),
     ModelFailure(CreditsExhausted)}

\* What answer_question returns on a string, given what its model call does:
\* the formatted answer, and of the reasoning trace the step that the model
\* call contributes.
answer_question(outcome) ==
    LET got == _generate_answer_gaia_format(outcome)
    IN  [answer |-> _format_for_scorer(got.answer), reasoning |-> got.reasoning]

\* One entry of results.
ResultEntry(task, model_answer, trace) ==
    [task_id |-> task, model_answer |-> model_answer, reasoning_trace |-> trace]

\* The "Error" of the except clause, and the text of the AttributeError that
\* answer_question raises on a question that is a list.
ErrorAnswer == <<"E","r","r","o","r">>

NoLower == <<"n","o"," ","l","o","w","e","r">>

InitBatch ==
    /\ pc = "fetch"
    /\ InputsIdle /\ AgentIdle /\ AnswerIdle /\ BatchIdle

\* questions = gaia_client.get_all_questions(), and the return on an empty list
Fetch ==
    /\ pc = "fetch"
    /\ \E qs \in QuestionLists :
          /\ questions' = qs
          /\ pc' = IF qs = <<>> THEN "no_questions" ELSE "loop"
    /\ UNCHANGED <<idx, results, successful, failed, output_file>>
    /\ UNCHANGED <<in_vars, agent_vars, answer_vars>>

\* The question the loop is at.
Current == questions[idx + 1]

\* Whether the loop has a question left.
InLoop == pc = "loop" /\ idx < Len(questions)

\* if not question_text: continue
SkipQuestion ==
    /\ InLoop
    /\ ~Truthy(QuestionTextOf(Current))
    /\ idx' = idx + 1
    /\ UNCHANGED <<pc, questions, results, successful, failed, output_file>>
    /\ UNCHANGED <<in_vars, agent_vars, answer_vars>>

\* The try block: the question is answered and its entry appended.
AnswerQuestion ==
    /\ InLoop
    /\ Truthy(QuestionTextOf(Current))
    /\ QuestionTextOf(Current) \notin {ListValue, NumberValue}
    /\ \E outcome \in BatchModelOutcomes :
          LET got == answer_question(outcome)
          IN  results' = Append(results,
                    ResultEntry(TaskIdOf(Current), got.answer, got.reasoning))
    /\ successful' = successful + 1
    /\ idx' = idx + 1
    /\ UNCHANGED <<pc, questions, failed, output_file>>
    /\ UNCHANGED <<in_vars, agent_vars, answer_vars>>

\* An except clause that puts its "Error" entry in front of the entries
\* gathered so far.
AnswerRaises_Prepend ==
    /\ InLoop
    /\ QuestionTextOf(Current) = ListValue
    /\ results' = <<ResultEntry(TaskIdOf(Current), ErrorAnswer, NoLower)>>
                        \o results
    /\ failed' = failed + 1
    /\ idx' = idx + 1
    /\ UNCHANGED <<pc, questions, successful, output_file>>
    /\ UNCHANGED <<in_vars, agent_vars, answer_vars>>

\* The except clause: answer_question raised (the question is a list, which
\* has no lower()), and an "Error" entry is appended.
AnswerRaises ==
    /\ InLoop
    /\ QuestionTextOf(Current) = ListValue
    /\ results' = Append(results,
            ResultEntry(TaskIdOf(Current), ErrorAnswer, NoLower))
    /\ failed' = failed + 1
    /\ idx' = idx + 1
    /\ UNCHANGED <<pc, questions, successful, output_file>>
    /\ UNCHANGED <<in_vars, agent_vars, answer_vars>>

\* question_text[:100] in the print before the try block raises on a question
\* that cannot be sliced, and generate_submission_file raises with it.
PrintRaises ==
    /\ InLoop
    /\ QuestionTextOf(Current) = NumberValue
    /\ pc' = "raised"
    /\ UNCHANGED <<questions, idx, results, successful, failed, output_file>>
    /\ UNCHANGED <<in_vars, agent_vars, answer_vars>>

\* The loop is through: every entry of results is written as one line.
WriteFile ==
    /\ pc = "loop"
    /\ idx = Len(questions)
    /\ output_file' = results
    /\ pc' = "summary"
    /\ UNCHANGED <<questions, idx, results, successful, failed>>
    /\ UNCHANGED <<in_vars, agent_vars, answer_vars>>

\* The summary divides by len(results) and shows results[0]: with no entry it
\* raises, else the function returns.
Summarize ==
    /\ pc = "summary"
    /\ pc' = IF Len(results) = 0 THEN "raised" ELSE "returned"
    /\ UNCHANGED batch_vars
    /\ UNCHANGED <<in_vars, agent_vars, answer_vars>>

NextBatch ==
    \/ Fetch
    \/ SkipQuestion
    \/ AnswerQuestion
    \/ AnswerRaises
    \/ PrintRaises
    \/ WriteFile
    \/ Summarize

SpecBatch == InitBatch /\ [][NextBatch]_vars

\* Whether the model call behind a results entry failed for exhausted credits.
CreditsFailure(entry) == entry.reasoning_trace = CreditsExhausted

\* C2: once the model call of one question fails for exhausted credits, no
\* later question is processed: no entry follows that question's, the loop
\* ends with fewer than N entries when a question was still to come, and the
\* entries gathered before are kept in their order.
C2_HaltsOnCredits ==
    \A i \in 1..Len(results) :
        CreditsFailure(results[i]) =>
            /\ i = Len(results)
            /\ (pc \in {"summary", "returned"} /\ idx > i)
                    => Len(results) < Len(questions)

\* C3: every question of the fetched list produces an entry: after the loop
\* the i-th entry carries the task id of the i-th question.
C3_EveryQuestionRecorded ==
    (pc \in {"summary", "returned", "raised"} /\ idx = Len(questions)) =>
        /\ Len(results) = Len(questions)
        /\ \A i \in 1..Len(results) : results[i].task_id = TaskIdOf(questions[i])

(***************************************************************************)
(* Claims on the model call of answer_question (checked under Spec).       *)
(***************************************************************************)
\* The number of chat_completion calls made so far.
ModelCalls == Cardinality({j \in 1..Len(calls) : calls[j].op = "chat_completion"})

\* Whether the model call was made and raised.
ModelCallFailed == pc \in {"format_answer", "done"} /\ full_response = None

\* C11: the model is invoked exactly once per answer_question call; when that
\* call fails it is not retried, the raw answer is the sentinel "Error
\* generating answer", the reasoning step holds the error description, and
\* answer_question still goes on to return its (answer, trace) pair.
C11_OneModelCall ==
    /\ pc \in {"analyze", "gather_search", "gather_file", "generate"}
          => ModelCalls = 0
    /\ pc \in {"format_answer", "done"} => ModelCalls = 1
    /\ ModelCallFailed =>
          /\ answer = ErrorGeneratingAnswer
          /\ answer_reasoning \in {ConnectionReset, CreditsExhausted}
          /\ \E i \in 1..Len(reasoning_steps) :
                reasoning_steps[i] = Step("answer_reasoning", answer_reasoning)
          /\ pc = "done" =>
                /\ final_answer = ErrorGeneratingAnswer
                /\ reasoning_steps[Len(reasoning_steps)] =
                      Step("Final formatted answer", ErrorGeneratingAnswer)

\* C11 witness: answer_question returned after its one model call raised.
C11_Witness ==
    /\ pc = "done"
    /\ full_response = None
    /\ ModelCalls = 1
    /\ answer = ErrorGeneratingAnswer
    /\ answer_reasoning = ConnectionReset
    /\ final_answer = ErrorGeneratingAnswer

(***************************************************************************)
(* SpecQuery: the search query built from a question.                      *)
(***************************************************************************)
\* Number of words and gaps a question is put together from.
MaxWords == 3

\* Number of words of the longest question.
MaxLongWords == 15

\* The words questions are put together from: a capitalised word ending in
\* punctuation, stop words in lower case, capitalised and after a comma, a
\* lone question mark, a number, a word and a number that open with a period,
\* and a plain word.
QueryWords == {
    <<"F","r","a","n","c","e","?">>,
    <<"t","h","e">>,
    <<"T","h","e">>,
    <<",","t","h","e">>,
    <<"o","f",".">>,
    <<"?">>,
    <<"2","0","2","4">>,
    <<".","N","E","T">>,
    <<".","5">>,
    <<"x">> }

\* A word followed by a space, or a space alone: questions get leading,
\* doubled and trailing spaces.
QueryPieces == {w \o <<" ">> : w \in QueryWords} \cup {<<" ">>}

\* The question of the n one-letter words a, b, c, ... ("a" is a stop word).
LongQuestion(n) == Cat([i \in 1..n |-> <<LowerChars[i], " ">>])

PresidentQuestion == <<"W","h","o"," ","i","s"," ","t","h","e"," ","c","u","r","r","e","n","t"," ","p","r","e","s","i","d","e","n","t"," ","o","f"," ","F","r","a","n","c","e","?">>

QueryQuestions ==
    {Cat(p) : p \in SeqUpTo(QueryPieces, MaxWords)}
    \cup {LongQuestion(n) : n \in (MaxKeyTerms - 1)..MaxLongWords}
    \cup {PresidentQuestion, PopulationQuestion}

InitQuery ==
    /\ pc = "build_query"
    /\ question_text \in QueryQuestions
    /\ task_id = None
    /\ tools = {"search"}
    /\ search_client = TRUE
    /\ AgentIdle /\ AnswerIdle /\ BatchIdle

\* search_query = self._generate_search_query(question_text)
BuildQuery ==
    /\ pc = "build_query"
    /\ search_query' = _generate_search_query(question_text)
    /\ pc' = "query_built"
    /\ UNCHANGED <<needs_search, needs_file, context, reasoning_steps, calls,
                   file_content, file_parse, file_cache>>
    /\ UNCHANGED read_vars
    /\ UNCHANGED <<in_vars, answer_vars, batch_vars>>

NextQuery == BuildQuery

SpecQuery == InitQuery /\ [][NextQuery]_vars

\* C12: the query is at most 12 tokens joined by single spaces: it has no two
\* consecutive spaces and no leading or trailing space, it is the first 12
\* surviving tokens in their original order, and it is the empty string when
\* no token survives.
C12_QueryShape ==
    pc = "query_built" =>
        LET surviving == KeyTerms(Split(question_text))
        IN  /\ ~Contains(search_query, <<" ", " ">>)
            /\ search_query # <<>> =>
                  search_query[1] # " " /\ search_query[Len(search_query)] # " "
            /\ Len(Split(search_query)) <= 12
            /\ search_query = Join(<<" ">>, Take(surviving, 12))
            /\ surviving = <<>> => search_query = <<>>

\* The token as the claim emits it: only its trailing punctuation stripped.
TrailingStripped(word) == RStripSet(word, Punctuation)

\* Whether the claim keeps the token: its first character is upper case, or
\* its punctuation-stripped lowercase form is a number, or that form is not a
\* stop word.
ClaimKeeps(word) ==
    \/ IsUpper(word[1])
    \/ IsDigit(Lower(TrailingStripped(word)))
    \/ Lower(TrailingStripped(word)) \notin stop_words

\* C13: a whitespace-separated token is kept exactly when its first character
\* is upper case, or its punctuation-stripped lowercase form is purely
\* numeric, or that form is not a stop word; each kept token is emitted with
\* only its trailing punctuation stripped.
C13_KeptTokens ==
    pc = "query_built" =>
        LET words == Split(question_text)
            kept == SelectSeq(words, ClaimKeeps)
            emitted == [i \in 1..Len(kept) |-> TrailingStripped(kept[i])]
        IN  search_query = Join(<<" ">>, Take(emitted, MaxKeyTerms))

(***************************************************************************)
(* SpecRead: a sequence of read_file calls on one FileReaderTool, each a   *)
(* cache lookup followed by the retry loop, one requests.get per step.     *)
(***************************************************************************)
\* Number of read_file calls made on the tool.
MaxReads == 3

\* The task ids files are asked for.
ReadTasks == {<<"t","1">>, <<"t","2">>}

\* A JSON file that is no error payload.
JsonFileBody == <<"[","1","]">>

\* What one requests.get may do: time out, raise, or answer with a status, a
\* Content-Type (JSON or not) and a body.
RequestOutcomes ==
    {Timeout, RequestError,
     Response(404, FALSE, <<>>),
     Response(500, FALSE, <<>>),
     Response(200, FALSE, <<>>),
     Response(200, TRUE, ErrorPayload),
     Response(200, FALSE, ErrorPayload),
     Response(200, TRUE, JsonFileBody),
     Response(200, FALSE, TextBody)}

\* self._file_cache = {}
InitRead ==
    /\ pc = "idle"
    /\ InputsIdle /\ AgentIdle /\ AnswerIdle /\ BatchIdle

\* read_file(task_id) is called: the cached bytes are returned, or the retry
\* loop starts.
CallReadFile ==
    /\ pc \in {"idle", "read_done"}
    /\ Len(calls) < MaxReads
    /\ \E task \in ReadTasks :
          /\ task_id' = task
          /\ calls' = Append(calls, [op |-> "read_file", arg |-> task])
          /\ IF task \in DOMAIN file_cache
             THEN file_content' = file_cache[task] /\ pc' = "read_done"
             ELSE file_content' = None /\ pc' = "request"
    /\ attempt' = 0
    /\ requests' = 0
    /\ response' = NoResponse
    /\ UNCHANGED <<needs_search, needs_file, search_query, context,
                   reasoning_steps, file_parse, file_cache>>
    /\ UNCHANGED <<question_text, tools, search_client>>
    /\ UNCHANGED <<answer_vars, batch_vars>>

\* One pass of the retry loop: requests.get, then the checks on its outcome.
Request ==
    /\ pc = "request"
    /\ \E r \in RequestOutcomes :
          LET h == HandleResponse(r, attempt)
          IN  /\ response' = r
              /\ requests' = requests + 1
              /\ IF h = "retry"
                 THEN /\ attempt' = attempt + 1
                      /\ pc' = "request"
                      /\ UNCHANGED <<file_content, file_cache>>
                 ELSE /\ file_content' = IF h = "success" THEN r.body ELSE None
                      /\ file_cache' = CacheAfter(file_cache, task_id, file_content')
                      /\ pc' = "read_done"
                      /\ UNCHANGED attempt
    /\ UNCHANGED <<needs_search, needs_file, search_query, context,
                   reasoning_steps, calls, file_parse>>
    /\ UNCHANGED <<in_vars, answer_vars, batch_vars>>

NextRead == CallReadFile \/ Request

SpecRead == InitRead /\ [][NextRead]_vars

\* requests.get is called with a timeout, so every pass of the loop ends.
SpecReadLive == SpecRead /\ WF_vars(Request)

\* A transient failure as C14 states it: a timeout, or a response with any
\* non-200 status.
TransientAsStated(r) ==
    r.kind = "timeout" \/ (r.kind = "response" /\ r.status # 200)

\* A failure the loop retries: a timeout, another exception of the request,
\* or a response whose status is neither 200 nor 404.
Transient(r) ==
    \/ r.kind \in {"timeout", "error"}
    \/ r.kind = "response" /\ r.status \notin {200, 404}

\* C14 (as stated): every transient failure of an attempt (a timeout, or a
\* response with any non-200 status) that is not the last allowed attempt is
\* followed by another attempt: a call whose last attempt failed that way
\* has made all its attempts, and returns None.
C14_RetriesTransient ==
    (pc = "read_done" /\ requests > 0 /\ TransientAsStated(response))
        => file_content = None /\ requests = max_retries

\* C14 (amended): a timeout, another request exception or a response with a
\* status other than 200 and 404, on an attempt that is not the last, is
\* followed by another attempt, and read_file gives up on such failures only
\* at the attempt ceiling; a 404 response ends the call with None at once.
C14_RetriesTransientNot404 ==
    /\ (pc = "read_done" /\ requests > 0 /\ Transient(response))
          => file_content = None /\ requests = max_retries
    /\ (pc = "request" /\ requests > 0)
          => Transient(response) /\ attempt = requests /\ attempt < max_retries
    /\ (pc = "read_done" /\ response.kind = "response" /\ response.status = 404)
          => file_content = None

\* C14 witness: a call that met a timeout or a 500 on each of its attempts
\* and gave up after the last one.
C14_Witness ==
    /\ pc = "read_done"
    /\ requests = max_retries
    /\ response = Response(500, FALSE, <<>>)
    /\ file_content = None

\* C15: read_file never returns and never caches a 200 response whose body is
\* a JSON error payload with a "detail" key, whatever its Content-Type.
C15_NoErrorPayload ==
    /\ (pc = "read_done" /\ file_content # None) => ~JsonHasDetail(file_content)
    /\ \A t \in DOMAIN file_cache : ~JsonHasDetail(file_cache[t])

\* The state part of C19: no call makes more than 3 requests, and inside the
\* loop the attempt index counts the requests of this call alone.
RequestsBounded ==
    /\ requests <= 3
    /\ pc = "request" => attempt = requests /\ attempt < 3

\* C19: every read_file call ends, after at most 3 HTTP requests, whatever
\* the endpoint does; the attempt count starts afresh with every call.
C19_BoundedRequests ==
    /\ []RequestsBounded
    /\ [][Len(calls') > Len(calls) => (attempt' = 0 /\ requests' = 0)]_vars
    /\ [](pc = "request" => <>(pc = "read_done"))

\* C19 witness: after an earlier call that cached nothing, a later call used
\* all three of its attempts and ended.
C19_Witness ==
    /\ pc = "read_done"
    /\ Len(calls) >= 2
    /\ file_cache = <<>>
    /\ requests = 3
    /\ file_content = None

\* C20: a cache entry is created only by the call that returns non-empty
\* bytes for its task id, and equals those bytes; a call that returns None
\* leaves the cache unchanged; an entry is never modified or removed; and a
\* read_file for a cached task id returns the cached bytes without any HTTP
\* request.
C20_CacheInvariant ==
    [][/\ \A t \in DOMAIN file_cache :
              t \in DOMAIN file_cache' /\ file_cache'[t] = file_cache[t]
       /\ \A t \in DOMAIN file_cache' \ DOMAIN file_cache :
              /\ pc = "request" /\ pc' = "read_done"
              /\ t = task_id
              /\ file_content' # None /\ Len(file_content') > 0
              /\ file_cache'[t] = file_content'
       /\ (pc' = "read_done" /\ file_content' = None) => file_cache' = file_cache
       /\ (Len(calls') > Len(calls) /\ task_id' \in DOMAIN file_cache)
              => /\ pc' = "read_done"
                 /\ file_content' = file_cache[task_id']
                 /\ requests' = 0
                 /\ file_cache' = file_cache
      ]_vars

\* C20 witness: a call for a task id cached by an earlier call returned the
\* cached bytes without a request.
C20_Witness ==
    /\ pc = "read_done"
    /\ Len(calls) >= 2
    /\ requests = 0
    /\ task_id \in DOMAIN file_cache
    /\ file_content = file_cache[task_id]
    /\ Len(file_content) > 0

(***************************************************************************)
(* Claims on the steps of the formatter (checked under SpecFormat).        *)
(***************************************************************************)
\* C16: the formatter strips all trailing periods: for every raw answer the
\* returned string does not end with a period ("I think 4." gives "4").
C16_NoTrailingPeriod ==
    pc = "formatted" =>
        /\ ~EndsWith(final_answer, <<".">>)
        /\ answer = <<"I"," ","t","h","i","n","k"," ","4",".">>
              => final_answer = <<"4">>

\* Whether s is wrapped in a matching pair of straight quotes: two characters
\* at least, the first and the last the same quote character.
WrappedInPair(s) ==
    /\ Len(s) >= 2
    /\ s[1] = s[Len(s)]
    /\ s[1] \in {"\"", "'"}

\* C17: the quote step removes exactly one leading and one trailing quote
\* character when the string left by the prefix step is wrapped in a matching
\* pair of straight quotes, and leaves every other string unchanged
\* (mismatched quote kinds, or a string shorter than two characters); the
\* quoted "4." formats to 4.
C17_QuoteStep ==
    pc = "formatted" =>
        LET rest == RemovePrefix(Strip(answer))
            unquoted == IF WrappedInPair(rest)
                        THEN SubSeq(rest, 2, Len(rest) - 1)
                        ELSE rest
        IN  /\ final_answer = CollapseWhitespace(RemoveTrailingPeriods(unquoted))
            /\ answer = <<"\"", "4", ".", "\"">> => final_answer = <<"4">>

(***************************************************************************)
(* Claims on the order of the batch (checked under SpecBatch).             *)
(***************************************************************************)
\* The questions among the first n that the loop processes: those with text.
Processed(n) ==
    SelectSeq(SubSeq(questions, 1, n), LAMBDA q : Truthy(QuestionTextOf(q)))

\* Whether the entries are those of the given questions, one each, in order.
InOrderOf(entries, qs) ==
    /\ Len(entries) = Len(qs)
    /\ \A i \in 1..Len(entries) : entries[i].task_id = TaskIdOf(qs[i])

\* C18: the questions are processed one after another, and the records
\* written to the output stand in the order in which their questions were
\* processed, whether a record came from a normal answer or from the
\* exception path.
C18_OutputInOrder ==
    /\ pc \in {"loop", "summary", "returned"} => InOrderOf(results, Processed(idx))
    /\ pc \in {"summary", "returned"} =>
          /\ output_file = results
          /\ InOrderOf(output_file, Processed(Len(questions)))
    /\ pc \in {"fetch", "no_questions", "loop"} => output_file = <<>>

\* C18 witness: a written output of three records, the second of them from
\* the exception path, the others from normal answers.
C18_Witness ==
    /\ pc = "returned"
    /\ Len(output_file) = 3
    /\ output_file[1].model_answer # ErrorAnswer
    /\ output_file[2].model_answer = ErrorAnswer
    /\ output_file[3].model_answer # ErrorAnswer
    /\ output_file[1].task_id # output_file[3].task_id

\* C21: generate_submission_file completes without raising and returns the
\* output file and the summary for every non-empty question list, the lists
\* included whose loop gathers no entry because every question lacks text:
\* once the loop is through, the function does not raise.
C21_ReturnsForAnyRecords ==
    (idx = Len(questions) /\ questions # <<>>) => pc # "raised"

====
